---- MODULE Spec2Model ----
(***************************************************************************)
(* A model of the robust MCP transport of postgres-mcp-tools:              *)
(*   RobustReadBuffer / deserializeMessage   (server/src/transport:         *)
(*                                            robust-stdio.ts)             *)
(*   RobustHttpTransport                     (robust-http.ts)              *)
(*   the error utilities                     (utils/error-handler.ts)      *)
(*                                                                         *)
(* A byte stream is a sequence over Bytes.  The symbols "1" and "2" each   *)
(* stand for the run of bytes  "jsonrpc":"2.0","method":"testN","id":N     *)
(* so that <<"{","1","}">> is the wire form of the JSON-RPC request test1. *)
(***************************************************************************)
EXTENDS Integers, Sequences, FiniteSets, TLC

(***************************************************************************)
(* Bounds of the model.                                                    *)
(***************************************************************************)
MaxLines == 3
MaxInLines == 2
MaxClients == 2
MaxThrowAt == 1
MaxCreate == 1
MaxClose == 2
MaxSends == 1
MaxFaults == 2
MaxRequests == 2
MaxStart == 2
MaxDrainLines == 3
MaxData == 102
MaxTx == 2

(***************************************************************************)
(* The byte alphabet and the lines the peers put on the wire.              *)
(***************************************************************************)
NL == "\n"
Bytes == {NL, "{", "}", "1", "2", " ", "x", "0"}

\* Line contents (without the newline): two requests, log text, a blank
\* line, a whitespace-only line, a JSON object that is no JSON-RPC message,
\* and a falsy JSON value.
LineKinds ==
  { <<"{", "1", "}">>, <<"{", "2", "}">>, <<"x">>, <<>>, <<" ">>,
    <<"{", "}">>, <<"0">> }

\* The lines of the inbound path's clients: two requests, log text, a
\* blank line and a JSON object that is no JSON-RPC message.
InLineKinds ==
  { <<"{", "1", "}">>, <<"{", "2", "}">>, <<"x">>, <<>>, <<"{", "}">> }

RECURSIVE StreamsOf(_, _)
StreamsOf(kinds, n) ==
  IF n = 0 THEN { <<>> }
  ELSE LET shorter == StreamsOf(kinds, n - 1)
       IN  shorter \cup { s \o l \o <<NL>> : s \in shorter, l \in kinds }

PrefixesOf(streams) ==
  UNION { { SubSeq(s, 1, k) : k \in 0..Len(s) } : s \in streams }

\* What may have arrived of n lines at some moment: every prefix of a byte
\* sequence made of at most n newline-terminated lines.
Prefixes == [n \in 0..MaxLines |-> PrefixesOf(StreamsOf(LineKinds, n))]
InPrefixes == [n \in 0..MaxInLines |-> PrefixesOf(StreamsOf(InLineKinds, n))]

Null == "null"

(***************************************************************************)
(* JSON.parse and the SDK's JSONRPCMessageSchema, on this alphabet.        *)
(***************************************************************************)
StripWs(line) == SelectSeq(line, LAMBDA b : b # " ")

\* JSON.parse(data): insignificant whitespace is skipped; anything that is
\* not one JSON document is a SyntaxError.
JSONParse(data) ==
  LET t == StripWs(data)
  IN  IF t = <<"{", "1", "}">> THEN [ok |-> TRUE, value |-> "obj1"]
      ELSE IF t = <<"{", "2", "}">> THEN [ok |-> TRUE, value |-> "obj2"]
      ELSE IF t = <<"{", "}">> THEN [ok |-> TRUE, value |-> "obj"]
      ELSE IF t = <<"0">> THEN [ok |-> TRUE, value |-> "0"]
      ELSE [ok |-> FALSE, value |-> "SyntaxError"]

\* JavaScript truthiness of a parsed JSON value: 0 is falsy, objects are not.
Truthy(value) == value # "0" /\ value # Null

\* JSONRPCMessageSchema.parse(json): the message, or a thrown ZodError.
SchemaParse(json) ==
  IF json = "obj1" THEN [ok |-> TRUE, value |-> "test1"]
  ELSE IF json = "obj2" THEN [ok |-> TRUE, value |-> "test2"]
  ELSE [ok |-> FALSE, value |-> "ZodError"]

Messages == {"test1", "test2"}

\* safeJsonParse(data): the parsed value, or null after a SyntaxError.
safeJsonParse(data) ==
  IF JSONParse(data).ok THEN JSONParse(data).value ELSE Null

\* deserializeMessage(line): returns the message or throws an MCPError.
deserializeMessage(line) ==
  LET json == safeJsonParse(line)
  IN  IF ~Truthy(json)
      THEN [threw |-> TRUE, code |-> "JSON_PARSE_ERROR", value |-> Null]
      ELSE IF SchemaParse(json).ok
      THEN [threw |-> FALSE, code |-> "", value |-> SchemaParse(json).value]
      ELSE [threw |-> TRUE, code |-> "PROTOCOL_ERROR", value |-> Null]

(***************************************************************************)
(* RobustReadBuffer.  The field `buffer` is undefined or a Buffer.         *)
(***************************************************************************)
\* What names a thrown value: its kind and the connection id its message
\* names.  NoRef: no value.
Ref(error) == [name |-> error.name, client |-> error.client]
NoRef == [name |-> "none", client |-> 0]

\* No exception.
NoError == [name |-> "none", code |-> "", context |-> "", client |-> 0,
            originalError |-> NoRef]

Undefined == [set |-> FALSE, bytes |-> <<>>]
Buf(b) == [set |-> TRUE, bytes |-> b]

\* append(chunk), with the mutant that forgets what was buffered.
appendDropsOld(buffer, chunk) == Buf(chunk)
append(buffer, chunk) ==
  IF buffer.set THEN Buf(buffer.bytes \o chunk) ELSE Buf(chunk)

\* Buffer.indexOf("\n"): 0-based index of the first newline, or -1.
indexOfOrEnd(b) ==
  IF \E i \in 1..Len(b) : b[i] = NL
  THEN (CHOOSE i \in 1..Len(b) : b[i] = NL /\ \A j \in 1..(i - 1) : b[j] # NL) - 1
  ELSE Len(b)
indexOf(b) ==
  IF \E i \in 1..Len(b) : b[i] = NL
  THEN (CHOOSE i \in 1..Len(b) : b[i] = NL /\ \A j \in 1..(i - 1) : b[j] # NL) - 1
  ELSE -1

\* buffer.toString("utf8", 0, index) and buffer.subarray(index + 1).
toString(b, index) == SubSeq(b, 1, index)
subarrayKeepsNewline(b, from) == SubSeq(b, from, Len(b))
subarraySkipsOne(b, from) == SubSeq(b, from + 2, Len(b))
subarray(b, from) == SubSeq(b, from + 1, Len(b))

\* What readMessage does when no line is taken off the buffer.
NoLine(buffer) ==
  [ret |-> Null, buffer |-> buffer, line |-> FALSE, text |-> <<>>,
   caught |-> "", threw |-> NoError]

\* Mutant of readMessage: a line that fails to decode discards what follows.
readMessagePoisoned(buffer) ==
  IF ~buffer.set THEN NoLine(buffer)
  ELSE LET index == indexOf(buffer.bytes)
       IN  IF index = -1 THEN NoLine(buffer)
           ELSE LET d == deserializeMessage(toString(buffer.bytes, index))
                IN  [ret |-> IF d.threw THEN Null ELSE d.value,
                     buffer |-> IF d.threw THEN Buf(<<>>)
                                ELSE Buf(subarray(buffer.bytes, index + 1)),
                     line |-> TRUE, text |-> toString(buffer.bytes, index),
                     caught |-> d.code, threw |-> NoError]

\* Mutant of readMessage: the error of deserializeMessage is not caught.
readMessageNoCatch(buffer) ==
  IF ~buffer.set THEN NoLine(buffer)
  ELSE LET index == indexOf(buffer.bytes)
       IN  IF index = -1 THEN NoLine(buffer)
           ELSE LET d == deserializeMessage(toString(buffer.bytes, index))
                IN  [ret |-> IF d.threw THEN Null ELSE d.value,
                     buffer |-> Buf(subarray(buffer.bytes, index + 1)),
                     line |-> TRUE, text |-> toString(buffer.bytes, index),
                     caught |-> "",
                     threw |-> IF d.threw
                               THEN [name |-> "MCPError", code |-> d.code,
                                     context |-> "deserializeMessage",
                                     client |-> 0, originalError |-> NoRef]
                               ELSE NoError]

\* readMessage(): the value returned and the buffer left behind.
\* `line` is TRUE when a line was taken off the buffer and `text` is that
\* line; `caught` is the code of the error of deserializeMessage that the
\* catch block caught ("": none), `threw` the exception that leaves
\* readMessage.
readMessage(buffer) ==
  IF ~buffer.set THEN NoLine(buffer)
  ELSE LET index == indexOf(buffer.bytes)
       IN  IF index = -1 THEN NoLine(buffer)
           ELSE LET line == toString(buffer.bytes, index)
                    rest == Buf(subarray(buffer.bytes, index + 1))
                    d == deserializeMessage(line)
                IN  [ret |-> IF d.threw THEN Null ELSE d.value,
                     buffer |-> rest, line |-> TRUE, text |-> line,
                     caught |-> d.code, threw |-> NoError]

\* A record written to the log about a failure: the logger method called
\* (`level`), the failure it is about (its code, "Error" for a plain
\* error) and the context or the headline of the line.  Lines that trace
\* normal operation are not modelled.
Log(level, about, context) ==
  [level |-> level, about |-> about, context |-> context]

\* handleJsonParseError(data, context), what it logs.
handleJsonParseErrorLogsAtError(context) ==
  {Log("error", "JSON_PARSE_ERROR", context)}
handleJsonParseErrorLogs(context) ==
  {Log("debug", "JSON_PARSE_ERROR", context)}

\* The length above which handleJsonParseError shortens the data.
TruncateAt == 100

\* data.substring(start, end) of a string kept as its sequence of characters.
substring(data, start, end) ==
  IF end <= Len(data) THEN SubSeq(data, start + 1, end)
  ELSE SubSeq(data, start + 1, Len(data))

\* truncatedData of handleJsonParseError: the characters kept and, when
\* the data was shortened, the note '... (truncated, total length: N)'.
NoNote == [truncated |-> FALSE, total |-> 0]
truncatedDataAtLimit(data) ==
  IF Len(data) >= TruncateAt
  THEN [text |-> substring(data, 0, TruncateAt),
        note |-> [truncated |-> TRUE, total |-> Len(data)]]
  ELSE [text |-> data, note |-> NoNote]
truncatedData(data) ==
  IF Len(data) > TruncateAt
  THEN [text |-> substring(data, 0, TruncateAt),
        note |-> [truncated |-> TRUE, total |-> Len(data)]]
  ELSE [text |-> data, note |-> NoNote]

\* handleJsonParseError(data, context), the MCPError it returns; its message
\* is 'Failed to parse data as JSON: ' followed by truncatedData.
handleJsonParseError(data, context) ==
  [name |-> "MCPError", code |-> "JSON_PARSE_ERROR", context |-> context,
   message |-> [headline |-> "Failed to parse data as JSON: ",
                data |-> truncatedData(data)]]

\* safeJsonParse(data, 'deserializeMessage'), what it logs.
safeJsonParseLogs(data) ==
  IF JSONParse(data).ok THEN {}
  ELSE handleJsonParseErrorLogs("deserializeMessage")

\* deserializeMessage(line), what it logs: the line of safeJsonParse, or
\* the line about a value that is not a JSON-RPC message.
deserializeMessageLogs(line) ==
  safeJsonParseLogs(line) \cup
  ( IF Truthy(safeJsonParse(line)) /\ ~SchemaParse(safeJsonParse(line)).ok
    THEN {Log("debug", "PROTOCOL_ERROR", "Invalid JSON-RPC message format")}
    ELSE {} )

\* What readMessage logs when it took `line` off the buffer: the lines of
\* deserializeMessage and, if that threw and line.trim() is not empty, the
\* line of the catch block.
readLineLogs(line) ==
  deserializeMessageLogs(line) \cup
  ( IF deserializeMessage(line).threw /\ StripWs(line) # <<>>
    THEN handleJsonParseErrorLogs("RobustReadBuffer")
    ELSE {} )

\* readMessage(), what it logs.
readMessageLogs(buffer) ==
  IF readMessage(buffer).line THEN readLineLogs(readMessage(buffer).text)
  ELSE {}

\* clear(), with the mutant that keeps the buffered bytes.
clearKeepsBytes(buffer) == buffer
clear(buffer) == Undefined

\* What repeated readMessage calls return for the bytes b appended at once,
\* one entry per line taken off the buffer.
RECURSIVE DrainAll(_)
DrainAll(b) ==
  LET r == readMessage(Buf(b))
  IN  IF r.line THEN <<r.ret>> \o DrainAll(r.buffer.bytes) ELSE <<>>

(***************************************************************************)
(* State.                                                                  *)
(***************************************************************************)
VARIABLES
  readBuffer,   \* RobustReadBuffer.buffer (the transport's this.readBuffer)
  received,     \* history: the bytes appended since construction or clear()
  results,      \* history: what readMessage returned for each line it took
  lastRet,      \* history: what readMessage returned last, since the
                \* latest append or clear ("none": not called since)
  lastRead,     \* history: the latest readMessage call since the latest
                \* append or clear, [called, line, text, caught, threw]
  cleared       \* history: what the buffer held when clear() was called
                \* last ("never": clear() was not called)

bufVars == <<readBuffer, received, results, lastRet, lastRead, cleared>>

VARIABLES
  bufFrom,      \* history: for each buffered byte, the clientId of the
                \* processInput call that appended it
  delivered,    \* history: the onmessage calls, [msg, client]
  errors,       \* history: the records passed to onerror
  taken,        \* history: the lines the latest processInput call took off
                \* the buffer, [line, from, ret]
  lastThrew,    \* history: onmessage threw in the latest processInput call
  escaped       \* history: the exception the latest processInput call
                \* threw to its caller (NoError: it returned)

inVars == <<bufFrom, delivered, errors, taken, lastThrew, escaped>>

VARIABLES
  logged        \* the records about failures that the latest step wrote
                \* to the log, [level, about, context]

VARIABLES
  logger,       \* the logger module: "none" (not loaded), "console" (console
                \* transport only) or "files" (NODE_ENV=production: with the
                \* file transports that handle exceptions and rejections)
  listeners,    \* who registered listeners for process faults
  alive,        \* the process has not exited
  faults,       \* history: the process faults raised, [event, reason]
  handled       \* history: the latest direct handleError call,
                \* [error, context, result]

procVars == <<logger, listeners, alive, faults, handled>>

VARIABLES
  endpoints,    \* the keys of Server.endpoints
  responses     \* history: the requests Server.handleRequest has run for,
                \* [path, registered, handler, answer]

httpVars == <<endpoints, responses>>
auxVars == <<procVars, httpVars>>

VARIABLES
  diagnosed,    \* history: the calls of handleJsonParseError, each
                \* [data, context, error]; at most the last one is kept
  txs           \* the calls of transaction(callback), by number: where each
                \* is suspended, what it issued on its client and how it
                \* settled

libVars == <<diagnosed, txs>>

VARIABLES
  server,         \* this.server: "null", or the state of the http.Server it
                  \* holds: "binding", "listening", "failed", "closing"
  createState,    \* the promise of the latest createServer call
  createCalls,    \* history: number of createServer calls
  listenPromise,  \* the promise of the Server.listen call that made the
                  \* createServer call, [status, error]
  closeLog,       \* history: the close() calls, [at, registered, done]
  closeListeners, \* callbacks given to server.close, waiting for 'close'
  oncloseCount,   \* history: number of onclose calls
  starts,         \* history: number of start() calls, each of which resolved
  clients,        \* the keys of this.clients
  nextClient,     \* number of requests the handler has run for
  conn,           \* per clientId: the request and its response (the sink)
  removed,        \* history: the ids clients.delete was called with
  sends           \* history: the send() calls and their promises,
                  \* [status, registered, ended, registry, targets,
                  \*  failing, awaiting, error]; registered and ended:
                  \*  the registry and the ended sinks when send was
                  \*  called; registry: the registry when it returned

srvVars == <<server, createState, createCalls, listenPromise, closeLog,
             closeListeners, oncloseCount, starts>>
regVars == <<clients, nextClient, conn, removed>>
netVars == <<srvVars, regVars, sends>>
vars == <<bufVars, inVars, netVars, logged, auxVars, libVars>>

\* The connection ids handed out by the request handler.
Clients == 1..MaxClients

\* No readMessage call to speak of.
NoRead == [called |-> FALSE, line |-> FALSE, text |-> <<>>, caught |-> "",
           threw |-> NoError]

\* new RobustReadBuffer(): the field is declared and not assigned.
InitBuffer ==
  /\ readBuffer = Undefined
  /\ received = <<>>
  /\ results = <<>>
  /\ lastRet = "none"
  /\ lastRead = NoRead
  /\ cleared = "never"

\* new RobustHttpTransport(): no callback has been called yet.
InitInbound ==
  /\ bufFrom = <<>>
  /\ delivered = <<>>
  /\ errors = <<>>
  /\ taken = <<>>
  /\ lastThrew = FALSE
  /\ escaped = NoError

\* A request the handler has not run for yet.
NoConn == [method |-> "none", closed |-> FALSE, bodyDone |-> FALSE,
           ended |-> FALSE, written |-> <<>>, ack |-> 0]

\* new RobustHttpTransport(): server = null, clients = new Map().
InitNet ==
  /\ server = "null"
  /\ createState = "none"
  /\ createCalls = 0
  /\ listenPromise = [status |-> "none", error |-> NoError]
  /\ closeLog = <<>>
  /\ closeListeners = 0
  /\ oncloseCount = 0
  /\ starts = 0
  /\ clients = {}
  /\ nextClient = 0
  /\ conn = [c \in Clients |-> NoConn]
  /\ removed = {}
  /\ sends = <<>>

\* The process before any module is loaded: nothing logged, no listener.
InitProcess ==
  /\ logged = {}
  /\ logger = "none"
  /\ listeners = {}
  /\ alive = TRUE
  /\ faults = <<>>
  /\ handled = [error |-> NoError, context |-> "", result |-> NoError]

\* new Server(): endpoints = new Map().
InitServer ==
  /\ endpoints = {}
  /\ responses = <<>>

\* No transaction has been called: the pool has handed out no client.
NoTx ==
  [pc |-> "idle", queries |-> <<>>, callback |-> "none", released |-> 0,
   outcome |-> "none", error |-> "none"]

InitLib ==
  /\ diagnosed = <<>>
  /\ txs = [t \in 1..MaxTx |-> NoTx]

Init ==
  /\ InitBuffer /\ InitInbound /\ InitNet /\ InitProcess /\ InitServer
  /\ InitLib

\* A step that writes `records` to the log and touches neither the process
\* nor the Server's endpoints.
Logs(records) == logged' = records /\ UNCHANGED <<auxVars, libVars>>

(***************************************************************************)
(* RobustReadBuffer driven directly, as the unit tests drive it.           *)
(***************************************************************************)
IsPrefix(p, q) == Len(p) <= Len(q) /\ SubSeq(q, 1, Len(p)) = p
HasNewline(b) == \E i \in 1..Len(b) : b[i] = NL

\* The bytes after the last newline of b, and the number of newlines in b.
PartialLine(b) ==
  LET nls == { i \in 1..Len(b) : b[i] = NL }
      last == IF nls = {} THEN 0 ELSE CHOOSE i \in nls : \A j \in nls : j <= i
  IN  SubSeq(b, last + 1, Len(b))
NewlinesIn(b) == Cardinality({ i \in 1..Len(b) : b[i] = NL })

\* What a buffer holds: nothing, part of a line, or at least one whole line.
Held(buffer) ==
  IF buffer.bytes = <<>> THEN "nothing"
  ELSE IF HasNewline(buffer.bytes) THEN "lines" ELSE "partial"

\* The chunks a peer may send next, when `sofar` is what it sent so far:
\* any part of the line it is in the middle of, or the rest of that line
\* followed by any part of the lines that may follow; at most max lines in
\* all (after[m]: what may arrive of m further lines).
NextChunks(kinds, after, max, sofar) ==
  LET part == PartialLine(sofar)
      left == max - NewlinesIn(sofar)
  IN  IF left <= 0 THEN {}
      ELSE UNION {
             { SubSeq(l, Len(part) + 1, j) : j \in (Len(part) + 1)..Len(l) }
             \cup { SubSeq(l, Len(part) + 1, Len(l)) \o <<NL>> \o c :
                      c \in after[left - 1] }
             : l \in { k \in kinds : IsPrefix(part, k) } }

DoAppend(chunk) ==
  /\ readBuffer' = append(readBuffer, chunk)
  /\ received' = received \o chunk
  /\ lastRet' = "none"
  /\ lastRead' = NoRead
  /\ Logs({})
  /\ UNCHANGED <<results, cleared, inVars, netVars>>

DoReadMessage ==
  LET r == readMessage(readBuffer)
  IN  /\ readBuffer' = r.buffer
      /\ lastRet' = r.ret
      /\ results' = IF r.line THEN Append(results, r.ret) ELSE results
      /\ lastRead' = [called |-> TRUE, line |-> r.line, text |-> r.text,
                      caught |-> r.caught, threw |-> r.threw]
      /\ Logs(readMessageLogs(readBuffer))
      /\ UNCHANGED <<received, cleared, inVars, netVars>>

DoClear ==
  /\ readBuffer' = clear(readBuffer)
  /\ received' = <<>>
  /\ results' = <<>>
  /\ lastRet' = "none"
  /\ lastRead' = NoRead
  /\ cleared' = Held(readBuffer)
  /\ Logs({})
  /\ UNCHANGED <<inVars, netVars>>

NextBuf ==
  \/ \E chunk \in NextChunks(LineKinds, Prefixes, MaxLines, received) : DoAppend(chunk)
  \/ DoReadMessage
  \/ DoClear

SpecBuf == Init /\ [][NextBuf]_vars

(***************************************************************************)
(* Error records (MCPError) and handleError.                               *)
(***************************************************************************)
\* new MCPError(code, message, context, originalError); `client` is the
\* connection id the message or the context names (0: none), context ""
\* stands for undefined, and originalError names the cause (NoRef: none).
MCPError(code, context, client, originalError) ==
  [name |-> "MCPError", code |-> code, context |-> context, client |-> client,
   originalError |-> originalError]

\* A plain Error thrown by a callback or by the platform, a thrown string,
\* and a thrown value of any other type.
PlainError(client) ==
  [name |-> "Error", code |-> "", context |-> "", client |-> client,
   originalError |-> NoRef]
ThrownString(client) ==
  [name |-> "string", code |-> "", context |-> "", client |-> client,
   originalError |-> NoRef]
ThrownValue(client) ==
  [name |-> "value", code |-> "", context |-> "", client |-> client,
   originalError |-> NoRef]

\* handleError(error, context), what it returns: an MCPError is kept (its
\* context is set only when it has none); an Error becomes a SERVER_ERROR
\* with the Error as originalError, a string one without originalError, any
\* other value one whose originalError is a new Error(String(value)).
handleErrorOverwritesContext(error, context) ==
  IF error.name = "MCPError"
  THEN IF context # "" THEN [error EXCEPT !.context = context] ELSE error
  ELSE IF error.name = "Error"
  THEN MCPError("SERVER_ERROR", context, error.client, Ref(error))
  ELSE IF error.name = "string"
  THEN MCPError("SERVER_ERROR", context, error.client, NoRef)
  ELSE MCPError("SERVER_ERROR", context, error.client,
                Ref(PlainError(error.client)))
handleErrorDropsCause(error, context) ==
  IF error.name = "MCPError"
  THEN IF context # "" /\ error.context = ""
       THEN [error EXCEPT !.context = context]
       ELSE error
  ELSE MCPError("SERVER_ERROR", context, error.client, NoRef)
handleError(error, context) ==
  IF error.name = "MCPError"
  THEN IF context # "" /\ error.context = ""
       THEN [error EXCEPT !.context = context]
       ELSE error
  ELSE IF error.name = "Error"
  THEN MCPError("SERVER_ERROR", context, error.client, Ref(error))
  ELSE IF error.name = "string"
  THEN MCPError("SERVER_ERROR", context, error.client, NoRef)
  ELSE MCPError("SERVER_ERROR", context, error.client,
                Ref(PlainError(error.client)))

\* handleError(error, context), what it logs: the error at error level
\* and, when there is an originalError, its stack at debug level.
handleErrorLogs(error, context) ==
  {Log("error", handleError(error, context).code,
       handleError(error, context).context)} \cup
  ( IF handleError(error, context).originalError # NoRef
    THEN {Log("debug", handleError(error, context).code,
              "Original error stack")}
    ELSE {} )

\* createTransportError(message, context)
createTransportError(client, context) ==
  MCPError("TRANSPORT_ERROR", context, client, NoRef)

(***************************************************************************)
(* RobustHttpTransport.processInput: the inbound path.                     *)
(***************************************************************************)
\* The while loop of processInput on the buffer `buffer` whose bytes came
\* from the clients `from`.  k > 0: the k-th onmessage call throws.
\* One line taken off the buffer: its text, the clients its bytes (newline
\* included) came from, and what readMessage returned for it.
TakenLine(bytes, from, n, ret) ==
  [line |-> toString(bytes, n - 1), from |-> { from[i] : i \in 1..n },
   ret |-> ret]

\* The outcome of the loop when its first readMessage returned r after
\* taking n bytes, and `more` is the outcome of the iterations after it.
\* `raised` is the exception readMessage threw into the loop (NoError:
\* none; when `threw` is TRUE without it, onmessage threw).
LoopOutcomeReversed(buffer, from, k, r, n, more) ==
  IF r.threw # NoError
  THEN [buffer |-> r.buffer, from |-> SubSeq(from, n + 1, Len(from)),
        taken |-> <<TakenLine(buffer.bytes, from, n, r.ret)>>,
        msgs |-> <<>>, threw |-> TRUE, raised |-> r.threw]
  ELSE IF r.ret = Null
  THEN [buffer |-> r.buffer, from |-> SubSeq(from, n + 1, Len(from)),
        taken |-> IF r.line
                  THEN <<TakenLine(buffer.bytes, from, n, r.ret)>> ELSE <<>>,
        msgs |-> <<>>, threw |-> FALSE, raised |-> NoError]
  ELSE IF k = 1
  THEN [buffer |-> r.buffer, from |-> SubSeq(from, n + 1, Len(from)),
        taken |-> <<TakenLine(buffer.bytes, from, n, r.ret)>>,
        msgs |-> <<r.ret>>, threw |-> TRUE, raised |-> NoError]
  ELSE [buffer |-> more.buffer, from |-> more.from,
        taken |-> <<TakenLine(buffer.bytes, from, n, r.ret)>> \o more.taken,
        msgs |-> more.msgs \o <<r.ret>>, threw |-> more.threw,
        raised |-> more.raised]
LoopOutcome(buffer, from, k, r, n, more) ==
  IF r.threw # NoError
  THEN [buffer |-> r.buffer, from |-> SubSeq(from, n + 1, Len(from)),
        taken |-> <<TakenLine(buffer.bytes, from, n, r.ret)>>,
        msgs |-> <<>>, threw |-> TRUE, raised |-> r.threw]
  ELSE IF r.ret = Null
  THEN [buffer |-> r.buffer, from |-> SubSeq(from, n + 1, Len(from)),
        taken |-> IF r.line
                  THEN <<TakenLine(buffer.bytes, from, n, r.ret)>> ELSE <<>>,
        msgs |-> <<>>, threw |-> FALSE, raised |-> NoError]
  ELSE IF k = 1
  THEN [buffer |-> r.buffer, from |-> SubSeq(from, n + 1, Len(from)),
        taken |-> <<TakenLine(buffer.bytes, from, n, r.ret)>>,
        msgs |-> <<r.ret>>, threw |-> TRUE, raised |-> NoError]
  ELSE [buffer |-> more.buffer, from |-> more.from,
        taken |-> <<TakenLine(buffer.bytes, from, n, r.ret)>> \o more.taken,
        msgs |-> <<r.ret>> \o more.msgs, threw |-> more.threw,
        raised |-> more.raised]

NoOutcome == [buffer |-> Undefined, from |-> <<>>, taken |-> <<>>,
              msgs |-> <<>>, threw |-> FALSE, raised |-> NoError]

RECURSIVE Drain(_, _, _)
RECURSIVE DrainAfter(_, _, _, _)
\* while ((message = this.readBuffer.readMessage()) !== null) onmessage(message)
\* on the buffer `buffer` whose bytes came from the clients `from`;
\* k > 0: the k-th onmessage call throws and ends the loop.
Drain(buffer, from, k) == DrainAfter(buffer, from, k, readMessage(buffer))
DrainAfter(buffer, from, k, r) ==
  LoopOutcome(buffer, from, k, r, Len(buffer.bytes) - Len(r.buffer.bytes),
              IF r.ret = Null \/ k = 1 THEN NoOutcome
              ELSE Drain(r.buffer,
                         SubSeq(from, Len(buffer.bytes) - Len(r.buffer.bytes) + 1,
                                Len(from)),
                         IF k = 0 THEN 0 ELSE k - 1))

\* The catch block of processInput: the error is standardised and given to
\* onerror (`reported`); nothing is thrown again (`rethrown`).
processInputCatchRethrows(error, clientId) ==
  [reported |-> handleError(error, "processInput"),
   rethrown |-> handleError(error, "processInput")]
processInputCatch(error, clientId) ==
  [reported |-> handleError(error, "processInput"), rethrown |-> NoError]

\* The exception the try block of processInput ended with: the one
\* readMessage threw, or else the one onmessage threw.
RaisedIn(d, clientId) ==
  IF d.raised # NoError THEN d.raised ELSE PlainError(clientId)

\* What processInput logs when the loop ended with outcome d: the lines of
\* its readMessage calls and, when the try block threw, the lines of
\* handleError.
processInputLogs(d, clientId) ==
  UNION { readLineLogs(d.taken[i].line) : i \in DOMAIN d.taken } \cup
  ( IF d.threw THEN handleErrorLogs(RaisedIn(d, clientId), "processInput")
    ELSE {} )

\* The effect of processInput once the loop ended with outcome d.
ProcessInputEnds(data, clientId, k, d) ==
  /\ k > 0 => d.threw
  /\ readBuffer' = d.buffer
  /\ bufFrom' = d.from
  /\ received' = received \o data
  /\ delivered' = delivered \o
       [i \in 1..Len(d.msgs) |-> [msg |-> d.msgs[i], client |-> clientId]]
  /\ errors' =
       IF d.threw
       THEN Append(errors,
                   processInputCatch(RaisedIn(d, clientId), clientId).reported)
       ELSE errors
  /\ escaped' =
       IF d.threw
       THEN processInputCatch(RaisedIn(d, clientId), clientId).rethrown
       ELSE NoError
  /\ taken' = d.taken
  /\ lastThrew' = d.threw
  /\ Logs(processInputLogs(d, clientId))
  /\ UNCHANGED <<results, lastRet, lastRead, cleared>>

\* processInput(data, clientId); onmessage throws on its k-th call (k > 0).
ProcessInput(data, clientId, k) ==
  ProcessInputEnds(data, clientId, k,
                   Drain(append(readBuffer, data),
                         bufFrom \o [i \in 1..Len(data) |-> clientId], k))

\* processInput called with one request body.
CallProcessInput(data, clientId, k) ==
  /\ ProcessInput(data, clientId, k)
  /\ UNCHANGED netVars

NextIn ==
  \E data \in NextChunks(InLineKinds, InPrefixes, MaxInLines, received) :
    \E clientId \in Clients, k \in 0..MaxThrowAt :
      CallProcessInput(data, clientId, k)

SpecIn == Init /\ [][NextIn]_vars

\* One client's request bodies, each any further part of what the client
\* sends or empty, with onmessage throwing or not on its first call: long
\* enough for a call to leave complete lines behind for the next one.
DrainPrefixes ==
  [n \in 0..MaxDrainLines |-> PrefixesOf(StreamsOf(InLineKinds, n))]

NextDrain ==
  \E data \in NextChunks(InLineKinds, DrainPrefixes, MaxDrainLines, received)
               \cup {<<>>} :
    \E k \in {0, 1} : CallProcessInput(data, 1, k)

SpecDrain == Init /\ [][NextDrain]_vars

(***************************************************************************)
(* RobustHttpTransport: lifecycle, registry of sinks, send.                *)
(***************************************************************************)
\* The welcome line written on accept; the payload of the s-th send is s.
Ack == 0

\* The bodies a POST request may carry.
PostBodies == { <<>>, <<"{", "1", "}", NL>>, <<"x", NL>>, <<"{">> }

\* start(), what it leaves of the transport's fields: it only logs
\* 'Transport initialized' and resolves.
startDropsClients(t) == [t EXCEPT !.clients = {}]
start(t) == t

\* A call of start(), the first or a later one.
Start ==
  /\ starts < MaxStart
  /\ starts' = starts + 1
  /\ LET t == start([server |-> server, clients |-> clients,
                     readBuffer |-> readBuffer])
     IN  /\ server' = t.server
         /\ clients' = t.clients
         /\ readBuffer' = t.readBuffer
  /\ Logs({})
  /\ UNCHANGED <<received, results, lastRet, lastRead, cleared, inVars,
                 createState, createCalls, listenPromise, closeLog,
                 closeListeners, oncloseCount, nextClient, conn, removed,
                 sends>>

\* Server.listen(port, host) while and after it awaits createServer: it
\* resolves when createServer resolved, and its catch block rejects with the
\* failure createServer rejected with.
listenSwallows(createStatus, failure) ==
  [status |-> IF createStatus = "pending" THEN "pending" ELSE "resolved",
   error |-> NoError]
listen(createStatus, failure) ==
  [status |-> createStatus,
   error |-> IF createStatus = "rejected" THEN failure ELSE NoError]

\* createServer(port, host), called on a transport that holds no server.
\* outcome "throw": listen throws synchronously (e.g. a port out of range),
\* after this.server was assigned.
CreateServer(outcome) ==
  /\ server = "null"
  /\ createCalls < MaxCreate
  /\ createCalls' = createCalls + 1
  /\ IF outcome = "ok"
     THEN /\ server' = "binding"
          /\ createState' = "pending"
          /\ listenPromise' = listen("pending", NoError)
          /\ Logs({})
          /\ UNCHANGED errors
     ELSE /\ server' = "failed"
          /\ createState' = "rejected"
          /\ listenPromise' = listen("rejected", PlainError(0))
          /\ Logs({Log("error", "Error", "Error creating HTTP server"),
                   Log("error", "Error", "Error starting server")})
          /\ errors' = Append(errors, PlainError(0))
  /\ UNCHANGED <<bufVars, bufFrom, delivered, taken, lastThrew, escaped,
                 closeLog, closeListeners, oncloseCount, starts, regVars,
                 sends>>

\* The callback of server.listen: the endpoint is bound.
ListenOk ==
  /\ server = "binding"
  /\ server' = "listening"
  /\ createState' = "resolved"
  /\ listenPromise' = listen("resolved", NoError)
  /\ Logs({})
  /\ UNCHANGED <<bufVars, inVars, createCalls, closeLog, closeListeners,
                 oncloseCount, starts, regVars, sends>>

\* The server's 'error' event while binding (e.g. EADDRINUSE).
ServerError ==
  /\ server = "binding"
  /\ server' = "failed"
  /\ errors' = Append(errors, PlainError(0))
  /\ createState' = "rejected"
  /\ listenPromise' = listen("rejected", PlainError(0))
  /\ Logs({Log("error", "Error", "HTTP server error"),
           Log("error", "Error", "Error starting server")})
  /\ UNCHANGED <<bufVars, bufFrom, delivered, taken, lastThrew, escaped,
                 createCalls, closeLog, closeListeners, oncloseCount, starts,
                 regVars, sends>>

\* The response of a request just accepted under clientId, after the
\* handler wrote the welcome line to it: `written` holds the lines written
\* to the sink (Ack for the welcome line), `ack` the clientId that the
\* welcome line carries.
acceptedUnacknowledged(method, clientId) ==
  [method |-> method, closed |-> FALSE, bodyDone |-> FALSE,
   ended |-> FALSE, written |-> <<>>, ack |-> 0]
accepted(method, clientId) ==
  [method |-> method, closed |-> FALSE, bodyDone |-> FALSE,
   ended |-> FALSE, written |-> <<Ack>>, ack |-> clientId]

\* The request handler given to http.createServer, for a GET or a POST.
Accept(method) ==
  /\ server = "listening"
  /\ nextClient < MaxClients
  /\ nextClient' = nextClient + 1
  /\ clients' = clients \cup {nextClient + 1}
  /\ conn' = [conn EXCEPT ![nextClient + 1] = accepted(method, nextClient + 1)]
  /\ Logs({})
  /\ UNCHANGED <<bufVars, inVars, srvVars, removed, sends>>

\* req.on('end') of a POST request whose chunks make up `body`.
ReqEnd(clientId, body, k) ==
  /\ conn[clientId].method = "POST"
  /\ ~conn[clientId].bodyDone
  /\ ~conn[clientId].closed
  /\ conn' = [conn EXCEPT ![clientId].bodyDone = TRUE]
  /\ IF Len(body) > 0
     THEN ProcessInput(body, clientId, k)
     ELSE k = 0 /\ Logs({}) /\ UNCHANGED <<bufVars, inVars>>
  /\ UNCHANGED <<srvVars, clients, nextClient, removed, sends>>

\* req.on('close'): the client disconnected.
ReqCloseKeepsSink(clientId) ==
  /\ conn[clientId].method # "none"
  /\ ~conn[clientId].closed
  /\ conn' = [conn EXCEPT ![clientId].closed = TRUE]
  /\ Logs({})
  /\ UNCHANGED <<bufVars, inVars, srvVars, clients, nextClient, removed, sends>>
ReqClose(clientId) ==
  /\ conn[clientId].method # "none"
  /\ ~conn[clientId].closed
  /\ clients' = clients \ {clientId}
  /\ removed' = removed \cup {clientId}
  /\ conn' = [conn EXCEPT ![clientId].closed = TRUE]
  /\ Logs({})
  /\ UNCHANGED <<bufVars, inVars, srvVars, nextClient, sends>>

\* The sinks send writes to: the registered ones that are not ended.
openSinksFirstOnly(registered) ==
  { c \in registered : ~conn[c].ended /\ \A d \in registered : c <= d }
openSinksAll(registered) == registered
openSinks(registered) == { c \in registered : ~conn[c].ended }

\* res.write(serialized, callback) on a sink whose write does not fail.
writeTwice(sink, payload) ==
  [sink EXCEPT !.written = Append(Append(@, payload), payload)]
write(sink, payload) == [sink EXCEPT !.written = Append(@, payload)]

\* The promise of send() when it has issued its writes to `targets`: with
\* nothing to wait for (no client, or no open sink) it resolves.
settledAtOnceRejects(targets) ==
  IF targets = {} THEN "rejected" ELSE "pending"
settledAtOnce(targets) == IF targets = {} THEN "resolved" ELSE "pending"

\* send(message): the synchronous part, up to `await Promise.all`.
\* fails: the sinks whose write will report an error.
Send(fails) ==
  /\ Len(sends) < MaxSends
  /\ fails \subseteq openSinks(clients)
  /\ conn' = [c \in Clients |->
                IF c \in openSinks(clients) \ fails
                THEN write(conn[c], Len(sends) + 1)
                ELSE conn[c]]
  /\ clients' = openSinks(clients)
  /\ removed' = removed \cup (clients \ openSinks(clients))
  /\ sends' = Append(sends,
       [status |-> settledAtOnce(openSinks(clients)),
        registered |-> clients,
        ended |-> { c \in Clients : conn[c].ended },
        registry |-> openSinks(clients),
        targets |-> openSinks(clients), failing |-> fails,
        awaiting |-> openSinks(clients), error |-> NoError])
  /\ Logs({})
  /\ UNCHANGED <<bufVars, inVars, srvVars, nextClient>>

\* The record of send s after the callback of its write to clientId ran:
\* the write's promise settles, and with it Promise.all, tryCatch and send.
AfterWrite(r, clientId) ==
  [r EXCEPT
     !.awaiting = @ \ {clientId},
     !.status = IF r.status # "pending" THEN @
                ELSE IF clientId \in r.failing THEN "rejected"
                ELSE IF r.awaiting = {clientId} THEN "resolved"
                ELSE @,
     !.error = IF r.status = "pending" /\ clientId \in r.failing
               THEN handleError(createTransportError(clientId, "send"),
                                "Transport.send")
               ELSE @]

\* The callback of res.write(serialized, (err) => ...) for send s.
WriteCallback(s, clientId) ==
  /\ s \in DOMAIN sends
  /\ clientId \in sends[s].awaiting
  /\ errors' = IF clientId \in sends[s].failing
               THEN Append(errors, createTransportError(clientId, "send"))
               ELSE errors
  /\ sends' = [sends EXCEPT ![s] = AfterWrite(@, clientId)]
  /\ Logs(IF sends[s].status = "pending" /\ clientId \in sends[s].failing
          THEN handleErrorLogs(createTransportError(clientId, "send"),
                               "Transport.send")
          ELSE {})
  /\ UNCHANGED <<bufVars, bufFrom, delivered, taken, lastThrew, escaped,
                 srvVars, regVars>>

\* close().  throwing: the registered sinks whose res.end() throws;
\* endedAnyway: those of them that the throwing call left ended all the
\* same (writableEnded is set before the point where it threw).
Close(throwing, endedAnyway) ==
  /\ Len(closeLog) < MaxClose
  /\ IF server = "null"
     THEN /\ throwing = {}
          /\ endedAnyway = {}
          /\ closeLog' = Append(closeLog, [at |-> server,
                                           registered |-> clients,
                                           done |-> TRUE])
          /\ UNCHANGED <<server, closeListeners, clients, conn, removed>>
     ELSE /\ throwing \subseteq clients
          /\ endedAnyway \subseteq throwing
          /\ conn' = [c \in Clients |->
                        IF c \in (clients \ throwing) \cup endedAnyway
                        THEN [conn[c] EXCEPT !.ended = TRUE] ELSE conn[c]]
          /\ clients' = clients \cap throwing
          /\ removed' = removed \cup (clients \ throwing)
          /\ server' = "closing"
          /\ closeListeners' = closeListeners + 1
          /\ closeLog' = Append(closeLog, [at |-> server,
                                           registered |-> clients,
                                           done |-> FALSE])
  /\ Logs(IF throwing = {} THEN {}
          ELSE {Log("error", "Error", "Error closing connection to client")})
  /\ UNCHANGED <<bufVars, inVars, createState, createCalls, listenPromise,
                 oncloseCount, starts,
                 nextClient, sends>>

\* The server's 'close' event: every callback given to server.close runs.
ServerCloseEvent ==
  /\ server = "closing"
  /\ server' = "null"
  /\ readBuffer' = clear(readBuffer)
  /\ received' = <<>>
  /\ results' = <<>>
  /\ lastRet' = "none"
  /\ bufFrom' = <<>>
  /\ oncloseCount' = oncloseCount + closeListeners
  /\ closeListeners' = 0
  /\ closeLog' = [i \in DOMAIN closeLog |-> [closeLog[i] EXCEPT !.done = TRUE]]
  /\ lastRead' = NoRead
  /\ cleared' = Held(readBuffer)
  /\ Logs({})
  /\ UNCHANGED <<delivered, errors, taken, lastThrew, escaped, createState,
                 createCalls, listenPromise, starts, regVars, sends>>

Next ==
  \/ Start
  \/ \E outcome \in {"ok", "throw"} : CreateServer(outcome)
  \/ ListenOk
  \/ ServerError
  \/ \E method \in {"GET", "POST"} : Accept(method)
  \/ \E clientId \in Clients, body \in PostBodies, k \in 0..MaxThrowAt :
       ReqEnd(clientId, body, k)
  \/ \E clientId \in Clients : ReqClose(clientId)
  \/ \E fails \in SUBSET Clients : Send(fails)
  \/ \E s \in 1..MaxSends, clientId \in Clients : WriteCallback(s, clientId)
  \/ \E throwing \in SUBSET Clients, endedAnyway \in SUBSET Clients :
       Close(throwing, endedAnyway)
  \/ ServerCloseEvent

Spec == Init /\ [][Next]_vars

\* The lifecycle alone: no send() and no request body.
NextLife ==
  \/ \E outcome \in {"ok", "throw"} : CreateServer(outcome)
  \/ ListenOk
  \/ ServerError
  \/ \E method \in {"GET", "POST"} : Accept(method)
  \/ \E clientId \in Clients : ReqClose(clientId)
  \/ \E throwing \in SUBSET Clients, endedAnyway \in SUBSET Clients :
       Close(throwing, endedAnyway)
  \/ ServerCloseEvent

SpecLife == Init /\ [][NextLife]_vars

\* The outbound path: a listening transport, its clients and send().
NextOut ==
  \/ CreateServer("ok")
  \/ ListenOk
  \/ \E method \in {"GET", "POST"} : Accept(method)
  \/ \E clientId \in Clients : ReqClose(clientId)
  \/ \E fails \in SUBSET Clients : Send(fails)
  \/ \E s \in 1..MaxSends, clientId \in Clients : WriteCallback(s, clientId)

SpecOut == Init /\ [][NextOut]_vars

\* The registry of sinks under every flow that touches it: accepts,
\* disconnects, close() of a listening transport, send() with its pruning
\* and its write callbacks, next to the inbound processing of request
\* bodies.
NextReg ==
  \/ CreateServer("ok")
  \/ ListenOk
  \/ \E method \in {"GET", "POST"} : Accept(method)
  \/ \E clientId \in Clients, body \in PostBodies, k \in 0..MaxThrowAt :
       ReqEnd(clientId, body, k)
  \/ \E clientId \in Clients : ReqClose(clientId)
  \/ \E fails \in SUBSET Clients : Send(fails)
  \/ \E s \in 1..MaxSends, clientId \in Clients : WriteCallback(s, clientId)
  \/ \E throwing \in SUBSET Clients, endedAnyway \in SUBSET Clients :
       server = "listening" /\ Close(throwing, endedAnyway)
  \/ ServerCloseEvent

SpecReg == Init /\ [][NextReg]_vars

\* The synchronous part of send() on a registry that close() may have left
\* with ended sinks: streaming (GET) clients, no request body and no write
\* callback.
NextPrune ==
  \/ CreateServer("ok")
  \/ ListenOk
  \/ Accept("GET")
  \/ \E clientId \in Clients : ReqClose(clientId)
  \/ \E fails \in SUBSET Clients : Send(fails)
  \/ \E throwing \in SUBSET Clients, endedAnyway \in SUBSET Clients :
       server = "listening" /\ Close(throwing, endedAnyway)
  \/ ServerCloseEvent

SpecPrune == Init /\ [][NextPrune]_vars

\* start() called at any moment of a transport that listens, accepts
\* requests, buffers their bodies and sees clients disconnect.
NextStart ==
  \/ Start
  \/ CreateServer("ok")
  \/ ListenOk
  \/ \E method \in {"GET", "POST"} : Accept(method)
  \/ \E clientId \in Clients, body \in PostBodies, k \in 0..MaxThrowAt :
       ReqEnd(clientId, body, k)
  \/ \E clientId \in Clients : ReqClose(clientId)

SpecStart == Init /\ [][NextStart]_vars

\* processInput called on a transport before, while and after it is
\* closed: the method is public and takes the data of any caller.  Here
\* onmessage does not throw.
NextClosed ==
  \/ CreateServer("ok")
  \/ ListenOk
  \/ Close({}, {})
  \/ ServerCloseEvent
  \/ \E data \in NextChunks(InLineKinds, InPrefixes, MaxInLines, received) :
       CallProcessInput(data, 1, 0)

SpecClosed == Init /\ [][NextClosed]_vars

\* The life of a request: it is accepted, its body arrives, the client
\* disconnects; the transport may be closed.  The platform delivers the
\* events it owes (the listen callback, the 'end' of a request that is
\* still connected, the server's 'close'); nobody is obliged to call
\* close() or to disconnect.
NextPost ==
  \/ CreateServer("ok")
  \/ ListenOk
  \/ \E method \in {"GET", "POST"} : Accept(method)
  \/ \E clientId \in Clients, body \in PostBodies, k \in 0..MaxThrowAt :
       ReqEnd(clientId, body, k)
  \/ \E clientId \in Clients : ReqClose(clientId)
  \/ \E throwing \in SUBSET Clients, endedAnyway \in SUBSET Clients :
       server = "listening" /\ Close(throwing, endedAnyway)
  \/ ServerCloseEvent

FairPost ==
  /\ WF_vars(ListenOk)
  /\ WF_vars(ServerCloseEvent)
  /\ \A clientId \in Clients :
       WF_vars(\E body \in PostBodies, k \in 0..MaxThrowAt :
                 ReqEnd(clientId, body, k))

SpecPost == Init /\ [][NextPost]_vars /\ FairPost

\* Request bodies of one line, one per decode outcome: a message, a line
\* that is not JSON, a JSON object that is not a JSON-RPC message, and a
\* falsy JSON value.
LogBodies ==
  { <<"{", "1", "}", NL>>, <<"x", NL>>, <<"{", "}", NL>>, <<"0", NL>> }

\* Everything the transport logs failures for while it is listening:
\* request bodies going through processInput, and send() with its write
\* callbacks.  The clients are POST requests; their responses are sinks of
\* send() like any other.
NextLog ==
  \/ CreateServer("ok")
  \/ ListenOk
  \/ Accept("POST")
  \/ \E clientId \in Clients, body \in LogBodies, k \in 0..MaxThrowAt :
       ReqEnd(clientId, body, k)
  \/ \E fails \in SUBSET Clients : Send(fails)
  \/ \E s \in 1..MaxSends, clientId \in Clients : WriteCallback(s, clientId)

SpecLog == Init /\ [][NextLog]_vars

(***************************************************************************)
(* The process: the logger, the listeners for process faults, handleError. *)
(***************************************************************************)
\* The values a fault carries or handleError is given: an Error, a string,
\* any other value, or an MCPError; the context labels handleError is
\* given ("": none).
Failures ==
  { PlainError(1), ThrownString(1), ThrownValue(1),
    createTransportError(1, "send") }
Contexts == {"", "processInput"}
Events == {"uncaughtException", "unhandledRejection"}

\* What a log line calls a value: its code, or "Error".
About(reason) == IF reason.code # "" THEN reason.code ELSE "Error"

\* Loading utils/logger.js creates the logger.  With NODE_ENV=production it
\* holds two file transports created with handleExceptions and
\* handleRejections, for which winston listens to both process events.
LoadLogger(production) ==
  /\ alive
  /\ logger = "none"
  /\ logger' = IF production THEN "files" ELSE "console"
  /\ listeners' = IF production THEN listeners \cup {"winston"} ELSE listeners
  /\ logged' = {}
  /\ UNCHANGED <<alive, faults, handled, httpVars, bufVars, inVars, netVars,
                 libVars>>

\* Loading the Server module: process.on('unhandledRejection', ...).
LoadServer ==
  /\ alive
  /\ logger # "none"
  /\ "server" \notin listeners
  /\ listeners' = listeners \cup {"server"}
  /\ logged' = {}
  /\ UNCHANGED <<logger, alive, faults, handled, httpVars, bufVars, inVars,
                 netVars,
                 libVars>>

\* registerGlobalErrorHandlers().
registerGlobalErrorHandlers ==
  /\ alive
  /\ logger # "none"
  /\ "global" \notin listeners
  /\ listeners' = listeners \cup {"global"}
  /\ logged' = {}
  /\ UNCHANGED <<logger, alive, faults, handled, httpVars, bufVars, inVars,
                 netVars,
                 libVars>>

\* The listeners that run for an event: winston's and the guards of
\* registerGlobalErrorHandlers for both, the Server module's for
\* rejections only.
ListenersFor(event) ==
  IF event = "uncaughtException" THEN listeners \cap {"winston", "global"}
  ELSE listeners

\* One listener's run for an event carrying `reason`: what it logs and
\* whether it ends the process.  The guards of registerGlobalErrorHandlers
\* call handleError (a rejection reason that is no Error is wrapped in a
\* new Error first); the Server module's listener calls logger.error;
\* winston logs the fault at error level and then, exitOnError being left
\* at its default, calls process.exit(1).
listener(who, event, reason) ==
  IF who = "global"
  THEN [logged |->
          IF event = "uncaughtException"
          THEN handleErrorLogs(reason, "Uncaught Exception")
          ELSE handleErrorLogs(IF reason.name \in {"Error", "MCPError"}
                               THEN reason ELSE PlainError(reason.client),
                               "Unhandled Promise Rejection"),
        exits |-> FALSE]
  ELSE IF who = "server"
  THEN [logged |-> {Log("error", About(reason), "Unhandled Rejection at")},
        exits |-> FALSE]
  ELSE [logged |-> {Log("error", About(reason), event)}, exits |-> TRUE]

\* A fault reaches the process.  With no listener for the event the
\* platform decides: an uncaught exception ends the process, an unhandled
\* rejection ends it or not, depending on the platform's version and flags
\* (`survives`).
Fault(event, reason, survives) ==
  /\ alive
  /\ Len(faults) < MaxFaults
  /\ faults' = Append(faults, [event |-> event, reason |-> reason])
  /\ logged' = UNION { listener(who, event, reason).logged :
                         who \in ListenersFor(event) }
  /\ alive' =
       IF ListenersFor(event) = {}
       THEN event = "unhandledRejection" /\ survives
       ELSE \A who \in ListenersFor(event) :
              ~listener(who, event, reason).exits
  /\ (ListenersFor(event) # {} \/ event = "uncaughtException") => survives
  /\ UNCHANGED <<logger, listeners, handled, httpVars, bufVars, inVars,
                 netVars,
                 libVars>>

\* handleError(error, context) called directly.
CallHandleError(error, context) ==
  /\ alive
  /\ logger # "none"
  /\ handled' = [error |-> error, context |-> context,
                 result |-> handleError(error, context)]
  /\ logged' = handleErrorLogs(error, context)
  /\ UNCHANGED <<logger, listeners, alive, faults, httpVars, bufVars, inVars,
                 netVars,
                 libVars>>

NextFault ==
  \/ \E production \in BOOLEAN : LoadLogger(production)
  \/ LoadServer
  \/ registerGlobalErrorHandlers
  \/ \E event \in Events, reason \in Failures, survives \in BOOLEAN :
       Fault(event, reason, survives)
  \/ \E error \in Failures, context \in Contexts :
       CallHandleError(error, context)

SpecFault == Init /\ [][NextFault]_vars

(***************************************************************************)
(* Server: the endpoints and handleRequest.                                *)
(***************************************************************************)
Paths == {"/", "/health"}

\* What a registered handler does with a request: it answers with
\* res.status(200).json(...); it throws (or its promise rejects) before it
\* touched the response; it answers and throws afterwards; or it writes
\* part of an answer with res.write and throws.
Handlers == {"responds", "throws", "respondsThenThrows", "writesThenThrows"}

\* addEndpoint(path, handler).
addEndpoint(path) ==
  /\ endpoints' = endpoints \cup {path}
  /\ logged' = {}
  /\ UNCHANGED <<responses, procVars, bufVars, inVars, netVars,
                 libVars>>

\* handleRequest(req, res) for a request to a path, `registered` telling
\* whether endpoints has a handler for it: the status and the body put on
\* the wire, whether the response was ended, and the exception that left
\* handleRequest (its promise rejects with it).  In the catch block
\* res.setHeader throws ERR_HTTP_HEADERS_SENT when the handler had sent the
\* headers already, before res.end is reached.
handleRequest(registered, handler) ==
  IF ~registered
  THEN [status |-> 404, body |-> "Not Found", ended |-> TRUE,
        escaped |-> NoError]
  ELSE IF handler = "responds"
  THEN [status |-> 200, body |-> "handler", ended |-> TRUE,
        escaped |-> NoError]
  ELSE IF handler = "throws"
  THEN [status |-> 500, body |-> "Internal Server Error", ended |-> TRUE,
        escaped |-> NoError]
  ELSE [status |-> 200, body |-> "handler",
        ended |-> handler = "respondsThenThrows",
        escaped |-> PlainError(0)]

\* The http server calls handleRequest for a request to `path`.
HandleRequest(path, handler) ==
  /\ Len(responses) < MaxRequests
  /\ path \notin endpoints => handler = "responds"
  /\ responses' = Append(responses,
       [path |-> path, registered |-> path \in endpoints,
        handler |-> IF path \in endpoints THEN handler ELSE "none",
        answer |-> handleRequest(path \in endpoints, handler)])
  /\ logged' = IF path \in endpoints /\ handler # "responds"
               THEN {Log("error", "Error", "Error handling request")}
               ELSE {}
  /\ UNCHANGED <<endpoints, procVars, bufVars, inVars, netVars,
                 libVars>>

NextEndpoints ==
  \/ \E path \in Paths : addEndpoint(path)
  \/ \E path \in Paths, handler \in Handlers : HandleRequest(path, handler)

SpecEndpoints == Init /\ [][NextEndpoints]_vars

(***************************************************************************)
(* db: transaction(callback).  A call is suspended at each await; `pc`     *)
(* names the await it is at, `queries` what it issued on its client with   *)
(* the result of each, `error` the failure it caught or threw.             *)
(***************************************************************************)
Settled(ok) == IF ok THEN "ok" ELSE "failed"

\* client.query(text) is called: the statement is issued.
issue(tx, text) ==
  [tx EXCEPT !.queries = Append(@, [text |-> text, result |-> "pending"])]

\* The statement issued last settles.
answered(tx, ok) ==
  [tx EXCEPT !.queries[Len(tx.queries)].result = Settled(ok)]

\* finally { client.release() }
release(tx) == [tx EXCEPT !.released = @ + 1]

\* catch (error) { await client.query('ROLLBACK') ...
catch(tx, cause) ==
  [issue(tx, "ROLLBACK") EXCEPT !.pc = "rollback", !.error = cause]

\* ... logger.error('Transaction error:', error); throw error } finally:
\* when ROLLBACK fails its error leaves the catch block instead.
afterRollbackLeaks(tx, ok) ==
  IF ok
  THEN release([answered(tx, ok) EXCEPT !.pc = "done",
                                        !.outcome = "rejected"])
  ELSE [answered(tx, ok) EXCEPT !.pc = "done", !.outcome = "rejected",
                                !.error = "ROLLBACK"]
afterRollback(tx, ok) ==
  release([answered(tx, ok) EXCEPT
             !.pc = "done", !.outcome = "rejected",
             !.error = IF ok THEN @ ELSE "ROLLBACK"])

\* The call continues after the await it is suspended at, up to its
\* next await or its end.
continue(tx, ok) ==
  IF tx.pc = "connect"
  THEN IF ok THEN [issue(tx, "BEGIN") EXCEPT !.pc = "begin"]
       ELSE [tx EXCEPT !.pc = "done", !.outcome = "rejected",
                       !.error = "connect"]
  ELSE IF tx.pc = "begin"
  THEN IF ok THEN [answered(tx, ok) EXCEPT !.pc = "callback",
                                           !.callback = "running"]
       ELSE catch(answered(tx, ok), "BEGIN")
  ELSE IF tx.pc = "callback"
  THEN IF ok THEN [issue([tx EXCEPT !.callback = "ok"], "COMMIT")
                     EXCEPT !.pc = "commit"]
       ELSE catch([tx EXCEPT !.callback = "failed"], "callback")
  ELSE IF tx.pc = "commit"
  THEN IF ok THEN release([answered(tx, ok) EXCEPT !.pc = "done",
                                                   !.outcome = "resolved"])
       ELSE catch(answered(tx, ok), "COMMIT")
  ELSE afterRollback(tx, ok)

\* What the continuation logs: getClient logs a failed connect, the catch
\* block the error it is about to throw again.
continueLogs(tx, ok) ==
  IF tx.pc = "connect" /\ ~ok
  THEN {Log("error", "Error", "Error connecting to database")}
  ELSE IF tx.pc = "rollback" /\ ok
  THEN {Log("error", "Error", "Transaction error:")}
  ELSE {}

\* transaction(callback) is called: it awaits getClient().
Transaction(t) ==
  /\ txs[t].pc = "idle"
  /\ \A u \in 1..(t - 1) : txs[u].pc # "idle"
  /\ txs' = [txs EXCEPT ![t].pc = "connect"]
  /\ logged' = {}
  /\ UNCHANGED <<bufVars, inVars, netVars, auxVars, diagnosed>>

\* The await of call t settles, with success or failure.
Continue(t, ok) ==
  /\ txs[t].pc \notin {"idle", "done"}
  /\ txs' = [txs EXCEPT ![t] = continue(@, ok)]
  /\ logged' = continueLogs(txs[t], ok)
  /\ UNCHANGED <<bufVars, inVars, netVars, auxVars, diagnosed>>

NextTx ==
  \/ \E t \in 1..MaxTx : Transaction(t)
  \/ \E t \in 1..MaxTx, ok \in BOOLEAN : Continue(t, ok)

SpecTx == Init /\ [][NextTx]_vars

(***************************************************************************)
(* handleJsonParseError on lines of every length around the limit.         *)
(***************************************************************************)
\* The offending lines: n characters, none of them a newline, that are not
\* JSON; the characters differ by position so that a cut at another place
\* gives another text.
Patterns == 0..2
Line(n, p) ==
  [i \in 1..n |-> IF i = 1 THEN "x"
                  ELSE IF (i + p) % 3 = 0 THEN "{"
                  ELSE IF (i + p) % 3 = 1 THEN "1" ELSE " "]

\* A call of handleJsonParseError(data, context).
HandleJsonParseError(data, context) ==
  /\ diagnosed' = <<[data |-> data, context |-> context,
                     error |-> handleJsonParseError(data, context)]>>
  /\ logged' = handleJsonParseErrorLogs(context)
  /\ UNCHANGED <<bufVars, inVars, netVars, auxVars, txs>>

NextDiag ==
  \E n \in 0..MaxData, p \in Patterns,
     context \in {"RobustReadBuffer", "deserializeMessage"} :
    HandleJsonParseError(Line(n, p), context)

SpecDiag == Init /\ [][NextDiag]_vars

(***************************************************************************)
(* Claims about RobustReadBuffer (checked under SpecBuf).                  *)
(***************************************************************************)
\* C3: chunking invariance.  However the bytes received so far were cut
\* into appends and wherever readMessage was called in between, the values
\* returned so far followed by what draining the buffer would still return
\* are what reading the same bytes appended at once returns; in particular
\* a line whose newline has not arrived has yielded nothing.
C3_ChunkingInvariance ==
  /\ results \o DrainAll(readBuffer.bytes) = DrainAll(received)
  /\ (~HasNewline(received) => results = <<>> /\ lastRet \in {"none", Null})

\* C3 witness: a request was split across two appends; readMessage, called
\* after the first append, took no line and returned null.
C3_Witness ==
  /\ received = <<"{", "1">>
  /\ readBuffer = Buf(<<"{", "1">>)
  /\ results = <<>>
  /\ lastRet = Null

\* C4: for a buffer that was given request A, a non-JSON line and request
\* B, the readMessage calls that take lines return A, null, B in that
\* order, and all three lines are taken.
MethodOf(a) == IF a = "1" THEN "test1" ELSE "test2"
C4_BadLineIsSkipped ==
  \A a, b \in {"1", "2"} :
    received = <<"{", a, "}", NL, "x", NL, "{", b, "}", NL>>
      => /\ IsPrefix(results, <<MethodOf(a), Null, MethodOf(b)>>)
         /\ Len(results) < 3 => HasNewline(readBuffer.bytes)

C4_Witness ==
  /\ received = <<"{", "1", "}", NL, "x", NL, "{", "2", "}", NL>>
  /\ results = <<"test1", Null, "test2">>

\* C15: readMessage on a buffer that holds no newline, a buffer never
\* appended to included, returns null and leaves the buffer as it was
\* (a step with lastRet' # "none" is a readMessage call).
C15_NoNewlineNoChange ==
  [][ (lastRet' # "none" /\ lastRead'.called /\ ~HasNewline(readBuffer.bytes))
        => /\ lastRet' = Null
           /\ readBuffer' = readBuffer
           /\ results' = results ]_vars

\* C15 witness: readMessage was called on a buffer holding part of a line
\* and returned null; the bytes are still there.
C15_Witness ==
  /\ lastRead.called
  /\ ~lastRead.line
  /\ lastRet = Null
  /\ readBuffer = Buf(<<"{", "2", "}">>)
  /\ received = <<"{", "2", "}">>

\* C16: readMessage on a buffer that holds a newline takes exactly the
\* bytes up to and including the first newline: the line it decodes is the
\* text before that newline and the buffer it leaves is exactly the bytes
\* after it, so the bytes taken are not seen by a later call.
C16_TakesExactlyFirstLine ==
  [][ (lastRet' # "none" /\ lastRead'.called /\ HasNewline(readBuffer.bytes))
        => \E n \in 1..Len(readBuffer.bytes) :
             /\ readBuffer.bytes[n] = NL
             /\ \A j \in 1..(n - 1) : readBuffer.bytes[j] # NL
             /\ lastRead'.line
             /\ lastRead'.text = SubSeq(readBuffer.bytes, 1, n - 1)
             /\ readBuffer' =
                  Buf(SubSeq(readBuffer.bytes, n + 1, Len(readBuffer.bytes)))
             /\ Len(results') = Len(results) + 1 ]_vars

\* C16 witness: the buffer held a request followed by the start of another
\* line; readMessage took the request and left exactly that start.
C16_Witness ==
  /\ received = <<"{", "1", "}", NL, "{", "2">>
  /\ lastRead.line
  /\ lastRead.text = <<"{", "1", "}">>
  /\ readBuffer = Buf(<<"{", "2">>)
  /\ results = <<"test1">>

\* C17: after clear(), whatever the buffer held when it was called, and
\* until data with a newline is appended, readMessage takes no line and
\* returns null, and the buffer holds only what was appended since.
C17_NothingAfterClear ==
  (cleared # "never" /\ ~HasNewline(received)) =>
    /\ lastRet \in {"none", Null}
    /\ ~lastRead.line
    /\ results = <<>>
    /\ readBuffer.bytes = received

\* C17 witness: clear() was called on a buffer holding whole lines, and a
\* readMessage call after it returned null.
C17_Witness ==
  /\ cleared = "lines"
  /\ received = <<>>
  /\ lastRead.called
  /\ lastRet = Null

\* C12: a line that is a JSON document is never classified as a parse
\* error.  When the latest readMessage call took a line that failed to
\* decode, the error deserializeMessage threw for it is PROTOCOL_ERROR if
\* the line parses as JSON, and JSON_PARSE_ERROR only if it does not.
C12_ValidJsonIsValidationError ==
  (lastRead.line /\ lastRead.caught # "") =>
    lastRead.caught = IF JSONParse(lastRead.text).ok
                      THEN "PROTOCOL_ERROR" ELSE "JSON_PARSE_ERROR"

\* C13: decoding never raises.  Whatever line the latest readMessage call
\* took (a request, non-JSON text, JSON of another shape, a falsy JSON
\* value, a blank or whitespace-only line) or found missing, it threw
\* nothing to its caller and returned a decoded message or null.
C13_ReadMessageNeverRaises ==
  /\ lastRead.threw = NoError
  /\ lastRead.called => lastRet \in Messages \cup {Null}
  /\ (lastRead.called /\ lastRead.caught # "") => lastRet = Null

\* C13 witness: readMessage took a line of valid JSON that is no JSON-RPC
\* message; deserializeMessage threw and readMessage returned null.
C13_Witness ==
  /\ lastRead.called
  /\ lastRead.text = <<"{", "}">>
  /\ lastRead.caught = "PROTOCOL_ERROR"
  /\ lastRead.threw = NoError
  /\ lastRet = Null

(***************************************************************************)
(* Claims about the inbound path (checked under SpecIn).  Every state of   *)
(* SpecIn is a state in which the latest processInput call has returned.   *)
(***************************************************************************)
\* C1: after processInput returns (onmessage not having thrown), no
\* complete line that decodes to a JSON-RPC message is left undelivered in
\* the buffer: lines after a blank or non-JSON line were decoded too.
C1_CompleteMessagesDelivered ==
  ~lastThrew =>
    \A i \in DOMAIN DrainAll(readBuffer.bytes) :
      DrainAll(readBuffer.bytes)[i] \notin Messages

\* C2: a line taken off the buffer never holds bytes of two connections.
C2_NoCrossConnectionLine ==
  \A i \in DOMAIN taken : Cardinality(taken[i].from) = 1

\* C10: for the lines of the latest processInput call that failed to decode
\* (blank lines left aside), onerror was called with a classified decode
\* error, once per line.
DecodeCodes == {"JSON_PARSE_ERROR", "PROTOCOL_ERROR"}
C10_DecodeFailureReported ==
  Cardinality({ j \in DOMAIN errors : errors[j].code \in DecodeCodes })
    >= Cardinality({ i \in DOMAIN taken :
                       taken[i].ret = Null /\ StripWs(taken[i].line) # <<>> })

(***************************************************************************)
(* Claims about send (checked under SpecOut).                              *)
(***************************************************************************)
\* The onerror calls that got a TransportError of send() naming client c.
SendErrorsFor(c) ==
  { j \in DOMAIN errors : errors[j] = createTransportError(c, "send") }

\* The write callbacks of client c that have reported a failure.
FailedWritesTo(c) ==
  { s \in DOMAIN sends : c \in sends[s].failing \ sends[s].awaiting }

\* The positions at which the payload of send s stands in the sink of c.
WrittenAt(s, c) ==
  { i \in DOMAIN conn[c].written : conn[c].written[i] = s }

\* C5: a failing write does not keep the message from the other sinks, and
\* is reported once.  Every send has written its message exactly once to
\* each client that was registered and open and whose write does not fail,
\* whatever the writes to the others do; and onerror has been called with a
\* TransportError naming client c exactly once per failed write to c, and
\* with no other TransportError.
C5_FailureIsolatedAndReportedOnce ==
  /\ \A s \in DOMAIN sends :
       \A c \in sends[s].registered \ sends[s].failing :
         ~conn[c].ended => Cardinality(WrittenAt(s, c)) = 1
  /\ \A s \in DOMAIN sends :
       \A c \in sends[s].failing : WrittenAt(s, c) = {}
  /\ \A c \in Clients :
       Cardinality(SendErrorsFor(c)) = Cardinality(FailedWritesTo(c))
  /\ \A j \in DOMAIN errors :
       errors[j].code = "TRANSPORT_ERROR" =>
         \E c \in Clients : j \in SendErrorsFor(c)

\* C5 witness: a send to two registered open clients, the write to one of
\* them failed; the other holds the message and onerror was called once.
C5_Witness ==
  \E s \in DOMAIN sends :
    \E c, d \in Clients :
      /\ sends[s].registered = {c, d}
      /\ c # d
      /\ sends[s].failing = {c}
      /\ sends[s].awaiting = {}
      /\ Cardinality(SendErrorsFor(c)) = 1
      /\ Cardinality(WrittenAt(s, d)) = 1

\* C6: send() never rejects to its caller: a write failure on a sink is
\* reported through onerror only.
C6_SendNeverRejects ==
  \A s \in DOMAIN sends : sends[s].status # "rejected"

\* C18: send() with no registered client resolves, writes to no sink and
\* calls onerror zero times.  In every step, a send that found the registry
\* empty is resolved and waits for no write callback (so none can report
\* for it), no sink holds its message, and the step in which it was called
\* changed no sink and called onerror not at all.
C18_SendToNobodyResolves ==
  [][ \A s \in DOMAIN sends' :
        sends'[s].registered = {} =>
          /\ sends'[s].status = "resolved"
          /\ sends'[s].error = NoError
          /\ sends'[s].awaiting = {}
          /\ sends'[s].failing = {}
          /\ \A c \in Clients :
               \A i \in DOMAIN conn'[c].written : conn'[c].written[i] # s
          /\ (s \notin DOMAIN sends => errors' = errors /\ conn' = conn)
    ]_vars

\* C18 witness: send() was called on a listening transport before any
\* client connected, and resolved.
C18_Witness ==
  /\ server = "listening"
  /\ nextClient = 0
  /\ Len(sends) = 1
  /\ sends[1].registered = {}
  /\ sends[1].status = "resolved"
  /\ errors = <<>>

(***************************************************************************)
(* Claims about the registry (checked under SpecPrune and SpecReg).        *)
(***************************************************************************)
\* C19: one send() writes its message once to each registered sink that is
\* not ended and to no other sink, and prunes the registered sinks that are
\* ended.  For every send: the sinks it wrote to are the ones that were
\* registered and not ended when it was called; each of them whose write
\* does not fail holds the message exactly once and no other sink holds
\* it; and the registry it left is the one it found less the ended sinks.
C19_WritesOpenPrunesEnded ==
  \A s \in DOMAIN sends :
    /\ sends[s].targets = sends[s].registered \ sends[s].ended
    /\ sends[s].registry = sends[s].registered \ sends[s].ended
    /\ (sends[s].registered \cap sends[s].ended) \subseteq removed
    /\ \A c \in Clients :
         Cardinality(WrittenAt(s, c)) =
           IF c \in (sends[s].registered \ sends[s].ended) \ sends[s].failing
           THEN 1 ELSE 0

\* C19 witness: close() left one sink ended and registered (its end()
\* threw) next to an open one; the send after it wrote to the open one
\* and removed the ended one.
C19_Witness ==
  /\ Len(sends) = 1
  /\ sends[1].registered = {1, 2}
  /\ sends[1].ended = {1}
  /\ sends[1].failing = {}
  /\ clients = {2}
  /\ conn[1].written = <<Ack>>
  /\ conn[2].written = <<Ack, 1>>

\* C20: under every interleaving of send() and its write callbacks with
\* accepts, disconnects, close(), pruning and inbound processing, a send
\* has written to every sink that was registered and open when it was
\* called (its message is in the sink unless that write fails), no sink
\* holds a message twice, and the registry holds exactly the ids that were
\* inserted and not removed.
C20_RegistrySafeUnderInterleaving ==
  /\ \A s \in DOMAIN sends :
       /\ (sends[s].registered \ sends[s].ended) \subseteq sends[s].targets
       /\ \A c \in sends[s].targets \ sends[s].failing :
            WrittenAt(s, c) # {}
       /\ \A c \in Clients : Cardinality(WrittenAt(s, c)) <= 1
  /\ clients = (1..nextClient) \ removed

\* C20 witness: while a send to client 1 waits for its write callback,
\* client 2 connected and its request body was processed, and client 1
\* disconnected.
C20_Witness ==
  /\ Len(sends) = 1
  /\ sends[1].registered = {1}
  /\ sends[1].awaiting = {1}
  /\ conn[1].closed
  /\ conn[2].bodyDone
  /\ clients = {2}
  /\ Len(delivered) = 1

(***************************************************************************)
(* Claims about close (checked under SpecLife).                            *)
(***************************************************************************)
\* Every close() call made so far has resolved.
AllClosesDone == \A i \in DOMAIN closeLog : closeLog[i].done

\* C7: when close() was called more than once on a transport that was
\* listening, with or without waiting for the earlier call, and every call
\* has resolved, onclose has been called exactly once.
C7_OncloseOnceForManyCloses ==
  ( /\ Len(closeLog) >= 2
    /\ closeLog[1].at = "listening"
    /\ AllClosesDone )
  => oncloseCount = 1

\* C8: when close() was called on a transport on which createServer was
\* never called, and the call has resolved, onclose has been called exactly
\* once.
C8_OncloseOnceWhenNeverListening ==
  ( /\ createCalls = 0
    /\ Len(closeLog) = 1
    /\ AllClosesDone )
  => oncloseCount = 1

\* C9: when a close() call on a listening transport has resolved, every
\* sink that was registered when it was called is ended and the registry is
\* empty, also when ending a sink raised an error.
C9_ClosedMeansAllSinksEnded ==
  \A i \in DOMAIN closeLog :
    ( /\ closeLog[i].at = "listening"
      /\ closeLog[i].done
      /\ i = Len(closeLog)
      /\ server = "null" )
    => /\ clients = {}
       /\ \A c \in closeLog[i].registered : conn[c].ended

\* C11: processInput never throws to its caller.  Whatever bytes it is
\* given and whatever the buffer holds, and also when onmessage throws, the
\* latest call returned: a line that fails to decode is absorbed by
\* readMessage, and anything thrown inside the loop by the catch block.
C11_ProcessInputNeverThrows == escaped = NoError

\* C11 witness: the latest call took a JSON line that is no JSON-RPC
\* message and a non-JSON line off the buffer, and returned.
C11_Witness ==
  /\ Len(taken) = 1
  /\ taken[1].line = <<"{", "}">>
  /\ taken[1].ret = Null
  /\ received = <<"x", NL, "{", "}", NL>>
  /\ escaped = NoError

\* The JSON-RPC messages among the values readMessage returns, and the
\* messages onmessage was called with, in the order of the calls.
MessagesOf(values) == SelectSeq(values, LAMBDA v : v \in Messages)
DeliveredMessages == [i \in 1..Len(delivered) |-> delivered[i].msg]

\* C14: messages are delivered in arrival order, each once.  The transport
\* appends what every connection sends to one buffer, so the lines of a
\* connection stand in it in the order they arrived; after any number of
\* processInput calls and any chunking, the messages given to onmessage so
\* far, followed by those of the lines still buffered, are the messages of
\* the lines received, in order and with no message repeated.
C14_DeliveredInArrivalOrder ==
  DeliveredMessages \o MessagesOf(DrainAll(readBuffer.bytes))
    = MessagesOf(DrainAll(received))

\* C14 witness: one connection sent two requests, the second one in a
\* later processInput call; onmessage got test1, then test2.
C14_Witness ==
  /\ received = <<"{", "1", "}", NL, "{", "2", "}", NL>>
  /\ delivered = << [msg |-> "test1", client |-> 1],
                    [msg |-> "test2", client |-> 1] >>
  /\ Len(taken) = 1

(***************************************************************************)
(* Claims about accepted connections (checked under SpecOut).              *)
(***************************************************************************)
\* C21: every connection accepted so far got an id of its own, its
\* response was registered as a sink under that id (it is in the registry
\* unless a disconnect or a pruning took it out since), the first line
\* written to the sink is the connection-established acknowledgement, that
\* line carries the sink's id, and every later line is a message of a
\* send().
C21_AckIsFirstLineWithId ==
  /\ \A c \in Clients : c <= nextClient <=> conn[c].method # "none"
  /\ \A c \in 1..nextClient :
       /\ c \in clients \cup removed
       /\ Len(conn[c].written) >= 1
       /\ conn[c].written[1] = Ack
       /\ conn[c].ack = c
       /\ \A i \in 2..Len(conn[c].written) :
            conn[c].written[i] \in DOMAIN sends

\* The first client is registered and was sent a message after its
\* acknowledgement.
C21_Witness ==
  /\ 1 \in clients
  /\ conn[1].ack = 1
  /\ conn[1].written = <<Ack, 1>>

\* C22: in every step, a sink whose connection has closed is not in the
\* registry afterwards and nothing is written to it any more (no later
\* send() reaches it); the step in which a connection closes takes exactly
\* that id out of the registry, which leaves the registry as it was when
\* the id was not registered (close() or a pruning send() had removed it
\* already), and reports or raises no error.
C22_DisconnectedSinkIsGone ==
  [][ /\ \A c \in Clients : conn'[c].closed => c \notin clients'
      /\ \A c \in Clients :
           conn[c].closed => conn'[c].written = conn[c].written
      /\ \A c \in Clients :
           (~conn[c].closed /\ conn'[c].closed) =>
             /\ clients' = clients \ {c}
             /\ errors' = errors
             /\ escaped' = escaped ]_vars

\* Client 1 was ended and removed by close() before its connection closed
\* (the removal found nothing to remove), and a send() since then wrote to
\* client 2 only.
C22_Witness ==
  /\ conn[1].closed
  /\ conn[1].ended
  /\ 1 \notin clients
  /\ conn[1].written = <<Ack>>
  /\ conn[2].written = <<Ack, 1>>

(***************************************************************************)
(* Claims about the lifecycle, continued (checked under SpecLife).         *)
(***************************************************************************)
\* C23: Closed is terminal.  Once a call of close() has completed, the
\* transport is never listening again, so it accepts no connection and
\* registers no sink.
C23_ClosedIsTerminal ==
  (\E i \in DOMAIN closeLog : closeLog[i].done) => server # "listening"

\* C24: the step in which binding fails (the server's 'error' event, or
\* listen throwing) rejects createServer and the Server.listen call built
\* on it with that very failure, the one also reported to onerror; a
\* rejected call stays rejected with the same failure whatever happens
\* next to that transport; and the two promises resolve only in the step
\* in which the endpoint is bound.
C24_BindFailureRejects ==
  [][ /\ (server # "failed" /\ server' = "failed") =>
           /\ createState' = "rejected"
           /\ listenPromise'.status = "rejected"
           /\ listenPromise'.error = PlainError(0)
           /\ errors' = Append(errors, listenPromise'.error)
      /\ (createState = "rejected" /\ createCalls' = createCalls) =>
           /\ createState' = "rejected"
           /\ listenPromise' = listenPromise
      /\ listenPromise.status = "rejected" <=> createState = "rejected"
      /\ (listenPromise.status # "resolved"
            /\ listenPromise'.status = "resolved") =>
           /\ server = "binding"
           /\ server' = "listening"
           /\ createState' = "resolved" ]_vars

\* Binding failed, the transport was closed afterwards, and Server.listen
\* is still rejected with the bind failure.
C24_Witness ==
  /\ server = "null"
  /\ createCalls = 1
  /\ createState = "rejected"
  /\ listenPromise = [status |-> "rejected", error |-> PlainError(0)]
  /\ \E i \in DOMAIN closeLog : closeLog[i].at = "failed" /\ closeLog[i].done

(***************************************************************************)
(* Claims about process faults and handleError (checked under SpecFault).  *)
(***************************************************************************)
\* C25: once registerGlobalErrorHandlers has run, every uncaught exception
\* and every unhandled rejection is logged at error level and leaves the
\* process alive.
C25_GuardedFaultKeepsProcessAlive ==
  [][ (Len(faults') > Len(faults) /\ "global" \in listeners) =>
        /\ alive'
        /\ \E l \in logged' : l.level = "error" ]_vars

\* C30: handleError given an Error, a string or any other value that is
\* not an MCPError returns an MCPError of code SERVER_ERROR with the
\* context it was given, whose originalError is the very Error when it was
\* given an Error.
C30_UnclassifiedBecomesServerError ==
  handled.error.name \in {"Error", "string", "value"} =>
    /\ handled.result.name = "MCPError"
    /\ handled.result.code = "SERVER_ERROR"
    /\ handled.result.context = handled.context
    /\ handled.error.name = "Error" =>
         handled.result.originalError = Ref(handled.error)

\* handleError was given a plain Error about client 1 and a context.
C30_Witness ==
  /\ handled.error = PlainError(1)
  /\ handled.context = "processInput"
  /\ handled.result.originalError = [name |-> "Error", client |-> 1]

C27_PostIsAnswered ==
  \A c \in Clients : (conn[c].method = "POST") ~> conn[c].ended

\* C28 (checked under SpecOut): every sink in the registry, and so every
\* sink a send() writes to, belongs to a GET request; the response of a
\* POST request is never registered.
C28_OnlyGetSinksRegistered ==
  /\ \A c \in clients : conn[c].method = "GET"
  /\ \A s \in DOMAIN sends :
       \A c \in sends[s].targets : conn[c].method = "GET"

(***************************************************************************)
(* Claims about Server.handleRequest (checked under SpecEndpoints).        *)
(***************************************************************************)
\* C29: a request to a path without a handler is answered 404 Not Found;
\* a request whose handler throws or rejects, at whatever point, is
\* answered 500 Internal Server Error; every response is ended and no
\* exception leaves handleRequest.
C29_NotFoundAndServerError ==
  \A i \in DOMAIN responses :
    /\ ~responses[i].registered =>
         /\ responses[i].answer.status = 404
         /\ responses[i].answer.body = "Not Found"
         /\ responses[i].answer.ended
    /\ responses[i].handler \in
         {"throws", "respondsThenThrows", "writesThenThrows"} =>
         /\ responses[i].answer.status = 500
         /\ responses[i].answer.body = "Internal Server Error"
         /\ responses[i].answer.ended
    /\ responses[i].answer.escaped = NoError

(***************************************************************************)
(* Claims about start() (checked under SpecStart).                         *)
(***************************************************************************)
\* C31: every call of start(), the first and each later one, resolves and
\* leaves the server, the registry with its sinks, the read buffer and what
\* was reported to onerror as they were.
C31_StartChangesNothing ==
  [][ starts' > starts =>
        /\ server' = server
        /\ clients' = clients
        /\ conn' = conn
        /\ readBuffer' = readBuffer
        /\ errors' = errors
        /\ escaped' = escaped
        /\ oncloseCount' = oncloseCount ]_vars

\* start() was called twice on a listening transport that has a registered
\* client and part of a line in its buffer.
C31_Witness ==
  /\ starts = 2
  /\ server = "listening"
  /\ clients # {}
  /\ readBuffer = Buf(<<"{">>)

(***************************************************************************)
(* Claims about a failed write (checked under SpecOut).                    *)
(***************************************************************************)
\* C32: a sink whose write failed during a send, once the callback of that
\* write has run, is no longer in the registry, so that a later send finds
\* no open sink of that client to write to.
C32_FailedSinkIsRemoved ==
  \A s \in DOMAIN sends : \A c \in sends[s].failing :
    c \notin sends[s].awaiting => c \notin openSinks(clients)

(***************************************************************************)
(* Claims about the text kept of an offending line (checked under          *)
(* SpecDiag).                                                              *)
(***************************************************************************)
\* C33: the error built for a line of more than 100 characters carries the
\* first 100 characters of the line and a note with the line's total
\* length; for a line of at most 100 characters it carries the whole line
\* and no note.
C33_KeepsFirstHundred ==
  \A i \in DOMAIN diagnosed :
    LET data == diagnosed[i].data
        kept == diagnosed[i].error.message.data
    IN  /\ diagnosed[i].error.code = "JSON_PARSE_ERROR"
        /\ IF Len(data) > 100
           THEN /\ Len(kept.text) = 100
                /\ \A k \in 1..100 : kept.text[k] = data[k]
                /\ kept.note = [truncated |-> TRUE, total |-> Len(data)]
           ELSE /\ kept.text = data
                /\ kept.note.truncated = FALSE

\* A line of 102 characters was diagnosed and shortened.
C33_Witness ==
  \E i \in DOMAIN diagnosed :
    /\ Len(diagnosed[i].data) = 102
    /\ diagnosed[i].error.message.data.note.truncated

(***************************************************************************)
(* Claims about a throwing onmessage (checked under SpecDrain).            *)
(***************************************************************************)
\* The messages this step gave to onmessage.
DeliveredNow ==
  [i \in 1..(Len(delivered') - Len(delivered)) |->
     delivered'[Len(delivered) + i].msg]

\* C34: when onmessage throws, processInput reports one error to onerror
\* and returns; the lines after the one whose message was being handled
\* stay in the buffer, and the next processInput call (onmessage not
\* throwing again) gives the messages of those lines to onmessage, in
\* order, before anything else.
C34_ThrowKeepsFollowingLines ==
  [][ /\ lastThrew' =>
           /\ Len(errors') = Len(errors) + 1
           /\ escaped' = NoError
      /\ lastThrew /\ ~lastThrew' =>
           LET kept == MessagesOf(DrainAll(readBuffer.bytes))
           IN  /\ Len(DeliveredNow) >= Len(kept)
               /\ \A i \in DOMAIN kept : DeliveredNow[i] = kept[i]
    ]_vars

(***************************************************************************)
(* Claims about the end of the drain loop (checked under SpecDrain).       *)
(***************************************************************************)
\* What processInput had to drain in this step: the buffer and the data.
ToDrain ==
  readBuffer.bytes \o SubSeq(received', Len(received) + 1, Len(received'))

RECURSIVE TakenBytes(_)
\* The bytes of the lines in `lines`, each with its newline.
TakenBytes(lines) ==
  IF lines = <<>> THEN 0
  ELSE Len(lines[1].line) + 1 + TakenBytes(Tail(lines))

C36_NoDeliveryAfterOnclose ==
  [][ oncloseCount > 0 => delivered' = delivered ]_vars

(***************************************************************************)
(* Claims about an error that is classified already (checked under        *)
(* SpecOut).                                                               *)
(***************************************************************************)
\* C37: handleError keeps an error that is classified already: the error
\* a rejected send() hands to its caller, after tryCatch passed it through
\* handleError with the context 'Transport.send', is the TransportError of
\* a failed write as it was created and reported to onerror, with its kind
\* TRANSPORT_ERROR and its context 'send'; handling it once more changes
\* nothing.
C37_ClassifiedErrorIsKept ==
  \A s \in DOMAIN sends :
    sends[s].status = "rejected" =>
      /\ \E c \in sends[s].failing :
           /\ sends[s].error = createTransportError(c, "send")
           /\ \E i \in DOMAIN errors : errors[i] = sends[s].error
      /\ sends[s].error.code = "TRANSPORT_ERROR"
      /\ sends[s].error.context = "send"
      /\ handleError(sends[s].error, "Transport.send") = sends[s].error

\* A send to two clients was rejected with the TransportError of the one
\* failed write.
C37_Witness ==
  \E s \in DOMAIN sends :
    /\ sends[s].status = "rejected"
    /\ Cardinality(sends[s].targets) = 2
    /\ Cardinality(sends[s].failing) = 1
    /\ sends[s].error.name = "MCPError"

(***************************************************************************)
(* Claims about transaction (checked under SpecTx).                        *)
(***************************************************************************)
Issued(tx, text) == \E i \in DOMAIN tx.queries : tx.queries[i].text = text
Result(tx, text, result) ==
  \E i \in DOMAIN tx.queries :
    tx.queries[i].text = text /\ tx.queries[i].result = result

\* C38: every call of transaction that got a client releases it exactly
\* once, when the call ends and not before.  COMMIT is issued only after
\* BEGIN and the callback succeeded; when the callback or COMMIT (or BEGIN)
\* failed, ROLLBACK is issued and the call rejects, with the failure it
\* caught when ROLLBACK succeeded; no call has both a successful COMMIT and
\* a ROLLBACK; and the client is released also when ROLLBACK failed.
C38_ReleasedOnceOnEveryPath ==
  \A t \in DOMAIN txs :
    LET tx == txs[t]
        failed == \/ Result(tx, "BEGIN", "failed")
                  \/ tx.callback = "failed"
                  \/ Result(tx, "COMMIT", "failed")
    IN  /\ tx.released =
             IF tx.pc = "done" /\ tx.error # "connect" THEN 1 ELSE 0
        /\ Issued(tx, "COMMIT") =>
             Result(tx, "BEGIN", "ok") /\ tx.callback = "ok"
        /\ Issued(tx, "ROLLBACK") <=> failed
        /\ ~(Result(tx, "COMMIT", "ok") /\ Issued(tx, "ROLLBACK"))
        /\ \A i, j \in DOMAIN tx.queries :
             tx.queries[i].text = tx.queries[j].text => i = j
        /\ tx.pc = "done" =>
             /\ tx.outcome = "resolved" <=> Result(tx, "COMMIT", "ok")
             /\ failed => tx.outcome = "rejected"
             /\ Result(tx, "ROLLBACK", "ok") =>
                  tx.error = IF tx.callback = "failed" THEN "callback"
                             ELSE IF Result(tx, "COMMIT", "failed")
                             THEN "COMMIT" ELSE "BEGIN"
             /\ Result(tx, "ROLLBACK", "failed") => tx.released = 1

\* One call ended after its callback failed and its ROLLBACK failed too,
\* another after its COMMIT failed and its ROLLBACK succeeded.
C38_Witness ==
  \E t, u \in DOMAIN txs :
    /\ txs[t].pc = "done" /\ txs[t].callback = "failed"
    /\ Result(txs[t], "ROLLBACK", "failed")
    /\ txs[u].pc = "done" /\ Result(txs[u], "COMMIT", "failed")
    /\ Result(txs[u], "ROLLBACK", "ok")

====
